---- MODULE Spec2Model ----
(***************************************************************************)
(* A model of edinet_api.py: the Edinet client (listing and document       *)
(* fetches, synchronous and asyncio-based) and the daily listing driver.   *)
(*                                                                         *)
(* Coroutines are modelled at the granularity of asyncio: a step is the    *)
(* code between two suspension points (await).  The remote service and the *)
(* operating system are the environment: every response (status, body,     *)
(* connection failure, payload failure) and every OSError of a write is a  *)
(* nondeterministic input.                                                 *)
(***************************************************************************)
EXTENDS Integers, Sequences, FiniteSets, TLC

VARIABLES
    subscription_key, \* Edinet.subscription_key
    dirs,             \* filesystem: the set of existing directories (paths)
    files,            \* filesystem: regular files, path -> content
    log,              \* everything printed, in order (stdout and stderr)
    batch,            \* the argument of the running batch (doc_ids / dates)
    batchPc,          \* position of get_documents / async_get_docs
    sessionOpen,      \* the aiohttp.ClientSession of the batch is open
    batchRet,         \* the value the batch handed to its caller
    st,               \* per task: position of the worker coroutine
    got,              \* per task: what the network gave it
    sent,             \* per task: number of HTTP requests issued
    drvPc,            \* position of the __main__ script
    target_date,      \* __main__: the date of the current iteration (a day)
    df,               \* __main__: the combined table (its rows)
    calls,            \* the synchronous calls made so far, with their results
    remote,           \* the answers of the environment, when they are pinned
    run,              \* how many times the batch has been called (1 or 2)
    firstFs           \* the filesystem as the first run of the batch left it

batchVars == <<batch, batchPc, sessionOpen, batchRet, st, got, sent>>
drvVars == <<drvPc, target_date, df, calls>>
rerunVars == <<remote, run, firstFs>>
vars == <<subscription_key, dirs, files, log, batch, batchPc, sessionOpen,
          batchRet, st, got, sent, drvPc, target_date, df, calls, remote, run,
          firstFs>>

----------------------------------------------------------------------------
(* Bounds of the model and the input alphabets.                            *)

MaxBatch == 3

MaxDates == 2

MaxCalls == 2

\* The driver looks back 180 days (line 214); the model looks back this many.
LookbackDays == 2

Keys == {"K1", "K2"}
DocIdOrder == <<"A1", "A2", "A3", "A4">>
TargetDirs == {<<".", "out">>, <<"blk">>}
Statuses == {200, 404, 500}
Bodies == {"b1", "b2"}

----------------------------------------------------------------------------
(* Python values.                                                          *)

None == [type |-> "NoneType"]

----------------------------------------------------------------------------
(* Paths and the filesystem.  A path is its sequence of segments.          *)

\* pathlib.Path(s): "." segments are dropped.
Path(segs) == SelectSeq(segs, LAMBDA s : s # ".")

Prefixes(p) == {SubSeq(p, 1, k) : k \in 1..Len(p)}

Bytes(b) == [kind |-> "bytes", data |-> b]

\* Path.mkdir(parents=True, exist_ok=True) raises when the path or one of its
\* parents exists and is not a directory.
MkdirRaises(p, fs) == \E q \in Prefixes(p) : q \in DOMAIN fs

MkdirParents(p, ds) == ds \cup Prefixes(p)

\* open(path, 'wb') needs the parent directory and a path that is no directory.
ParentExists(p, ds) == Len(p) = 1 \/ SubSeq(p, 1, Len(p) - 1) \in ds

CanOpenForWrite(p, ds) == ParentExists(p, ds) /\ p \notin ds

\* A write that opens its file in append mode ('ab'): what was there stays
\* in front of the new content.
WriteFileAppending(p, c, fs) ==
    IF p \in DOMAIN fs
    THEN (p :> [kind |-> "appended", old |-> fs[p], new |-> c]) @@ fs
    ELSE (p :> c) @@ fs

\* Path.write_bytes, open(path, 'wb') and to_csv(path) truncate the file.
WriteFile(p, c, fs) == (p :> c) @@ fs

FileExists(p) == p \in DOMAIN files

----------------------------------------------------------------------------
(* URLs and printed lines.                                                 *)

NoUrl == [endpoint |-> "", arg |-> "", type |-> 0, key |-> ""]

\* f'{Edinet.URL}/documents/{doc_id}?type={doc_type}&Subscription-Key={key}'
DocUrl(doc_id, doc_type, key) ==
    [endpoint |-> "documents", arg |-> doc_id, type |-> doc_type, key |-> key]

Line(stream, text, url, status, err) ==
    [stream |-> stream, text |-> text, url |-> url, status |-> status,
     err |-> err]

FetchingLine(url, status) == Line("stdout", "Fetching", url, status, "")

ErrorLine(url, err) == Line("stdout", "Error fetching", url, 0, err)

----------------------------------------------------------------------------
(* The tasks of a batch.                                                   *)

Tasks == 1..Len(batch)

\* Nothing received yet: no status, no exception, no body, nothing written.
NoResponse == [status |-> 0, err |-> "", body |-> "", wrote |-> FALSE]

Started(i) == st[i] # "created"

Terminal(i) == st[i] \in {"returned", "raised", "cancelled"}

InFlight == {i \in Tasks : st[i] \in {"connecting", "reading"}}

\* asyncio runs the first step of every task of gather(), in order, before it
\* polls the network: task i starts after task i-1, and no response is
\* handled before the last task has started.
AllStarted == \A i \in Tasks : Started(i)

----------------------------------------------------------------------------
(* A batch may be called a second time (run = 2) against an environment    *)
(* whose answers are pinned; otherwise the answers are free.               *)

Free == [fixed |-> FALSE]

\* The batch is called once, with a free environment.
InitNoRerun ==
    /\ remote = Free
    /\ run = 1
    /\ firstFs = [dirs |-> {}, files |-> <<>>]

----------------------------------------------------------------------------
(* Edinet.async_get_document(session, doc_id, target_dir, doc_type=1)      *)

\* Line 186: Path(target_dir) / f'{doc_id}.zip', whatever doc_type is.
save_path(req) == Path(req.target_dir) \o <<req.doc_id \o ".zip">>

\* The first step of a worker in a variant of get_documents that schedules
\* its tasks before the delay (asyncio.create_task, then an awaited
\* asyncio.sleep): the step can run while the batch is still waiting.
async_get_document_start_before_delay(i) ==
    /\ batchPc \in {"sleeping", "gathering"}
    /\ st[i] = "created"
    /\ \A j \in 1..(i - 1) : Started(j)
    /\ IF MkdirRaises(Path(batch[i].target_dir), files)
       THEN /\ st' = [st EXCEPT ![i] = "raised"]
            /\ UNCHANGED <<dirs, sent>>
       ELSE /\ dirs' = MkdirParents(Path(batch[i].target_dir), dirs)
            /\ st' = [st EXCEPT ![i] = "connecting"]
            /\ sent' = [sent EXCEPT ![i] = @ + 1]
    /\ UNCHANGED <<rerunVars, drvVars, subscription_key, files, log, batch,
                   batchPc, sessionOpen,
                   batchRet, got>>

\* Lines 183-189: build the URL, create the directory (outside the try) and
\* issue the request; the coroutine suspends in session.get.
async_get_document_start(i) ==
    /\ batchPc = "gathering"
    /\ st[i] = "created"
    /\ \A j \in 1..(i - 1) : Started(j)
    /\ IF MkdirRaises(Path(batch[i].target_dir), files)
       THEN /\ st' = [st EXCEPT ![i] = "raised"]
            /\ UNCHANGED <<dirs, sent>>
       ELSE /\ dirs' = MkdirParents(Path(batch[i].target_dir), dirs)
            /\ st' = [st EXCEPT ![i] = "connecting"]
            /\ sent' = [sent EXCEPT ![i] = @ + 1]
    /\ UNCHANGED <<rerunVars, drvVars, subscription_key, files, log, batch,
                   batchPc, sessionOpen,
                   batchRet, got>>

\* Lines 189-192 and 194-196: the response head arrives (any status) or the
\* connection fails; the status is printed and never tested.
async_get_document_response(i) ==
    /\ st[i] = "connecting"
    /\ AllStarted
    /\ sessionOpen
    /\ LET url == DocUrl(batch[i].doc_id, batch[i].doc_type, subscription_key) IN
       \/ /\ st' = [st EXCEPT ![i] = "returned"]
          /\ got' = [got EXCEPT ![i].err = "ClientConnectorError"]
          /\ log' = Append(log, ErrorLine(url, "ClientConnectorError"))
       \/ \E s \in Statuses :
            /\ st' = [st EXCEPT ![i] = "reading"]
            /\ got' = [got EXCEPT ![i].status = s]
            /\ log' = Append(log, FetchingLine(url, s))
    /\ UNCHANGED <<rerunVars, drvVars, subscription_key, dirs, files, batch,
                   batchPc, sessionOpen,
                   batchRet, sent>>

\* Lines 192-196: the body has been read (or reading failed) and is written
\* to save_path; an OSError of the write is caught like any other exception.
async_get_document_body(i) ==
    /\ st[i] = "reading"
    /\ sessionOpen
    /\ LET url == DocUrl(batch[i].doc_id, batch[i].doc_type, subscription_key)
           p == save_path(batch[i])
       IN
       \/ /\ got' = [got EXCEPT ![i].err = "ClientPayloadError"]
          /\ log' = Append(log, ErrorLine(url, "ClientPayloadError"))
          /\ UNCHANGED files
       \/ \E b \in Bodies, oserror \in BOOLEAN :
            IF oserror \/ ~CanOpenForWrite(p, dirs)
            THEN /\ got' = [got EXCEPT ![i].body = b, ![i].err = "OSError"]
                 /\ log' = Append(log, ErrorLine(url, "OSError"))
                 /\ UNCHANGED files
            ELSE /\ files' = WriteFile(p, Bytes(b), files)
                 /\ got' = [got EXCEPT ![i].body = b, ![i].wrote = TRUE]
                 /\ UNCHANGED log
    /\ st' = [st EXCEPT ![i] = "returned"]
    /\ UNCHANGED <<rerunVars, drvVars, subscription_key, dirs, batch,
                   batchPc, sessionOpen,
                   batchRet, sent>>

\* The session was closed under a pending request (the batch has raised):
\* the await fails with a connection error, which line 194 catches, or the
\* task is cancelled by the shutdown of the event loop (CancelledError is no
\* Exception and passes line 194).
async_get_document_abort(i) ==
    /\ st[i] \in {"connecting", "reading"}
    /\ ~sessionOpen
    /\ LET url == DocUrl(batch[i].doc_id, batch[i].doc_type, subscription_key) IN
       \/ /\ st' = [st EXCEPT ![i] = "returned"]
          /\ got' = [got EXCEPT ![i].err = "ClientConnectionError"]
          /\ log' = Append(log, ErrorLine(url, "ClientConnectionError"))
       \/ /\ st' = [st EXCEPT ![i] = "cancelled"]
          /\ got' = [got EXCEPT ![i].err = "CancelledError"]
          /\ UNCHANGED log
    /\ UNCHANGED <<rerunVars, drvVars, subscription_key, dirs, files, batch,
                   batchPc, sessionOpen,
                   batchRet, sent>>

----------------------------------------------------------------------------
(* Edinet.get_documents(doc_ids)                                           *)

\* Lines 204-206: the session is opened, the coroutine objects are created
\* (none runs yet) and time.sleep(5) blocks the thread.
get_documents_enter ==
    /\ batchPc = "called"
    /\ batchPc' = "sleeping"
    /\ sessionOpen' = TRUE
    /\ UNCHANGED <<rerunVars, drvVars, subscription_key, dirs, files, log,
                   batch, batchRet, st,
                   got, sent>>

\* Line 207: the sleep is over; gather() schedules one task per coroutine.
get_documents_gather ==
    /\ batchPc = "sleeping"
    /\ batchPc' = "gathering"
    /\ UNCHANGED <<rerunVars, drvVars, subscription_key, dirs, files, log,
                   batch, sessionOpen,
                   batchRet, st, got, sent>>

\* Line 207 and the end of the function: every task has returned; the result
\* list of gather() is dropped and the function returns None.
get_documents_return ==
    /\ batchPc = "gathering"
    /\ \A i \in Tasks : st[i] = "returned"
    /\ batchPc' = "returned"
    /\ sessionOpen' = FALSE
    /\ batchRet' = None
    /\ UNCHANGED <<rerunVars, drvVars, subscription_key, dirs, files, log,
                   batch, st, got, sent>>

\* Line 207 without return_exceptions: the first exception of a task is
\* raised in get_documents, which leaves the async with (closing the session)
\* while the other tasks are still pending.
get_documents_raise ==
    /\ batchPc = "gathering"
    /\ AllStarted
    /\ \E i \in Tasks : st[i] = "raised"
    /\ batchPc' = "raised"
    /\ sessionOpen' = FALSE
    /\ UNCHANGED <<rerunVars, drvVars, subscription_key, dirs, files, log,
                   batch, batchRet, st,
                   got, sent>>

----------------------------------------------------------------------------
(* The document batch: get_documents over every accepted doc_ids mapping.   *)

\* The arguments of one async_get_document coroutine.
DocRequest(id, d, t) == [doc_id |-> id, target_dir |-> d, doc_type |-> t]

\* doc_ids is a dict: its keys are distinct; items() keeps insertion order.
\* Line 205 passes no doc_type: every member has the default, 1.
DocBatches ==
    UNION {{[i \in 1..n |-> DocRequest(DocIdOrder[i], ds[i], 1)] :
              ds \in [1..n -> TargetDirs]} : n \in 1..MaxBatch}

\* No synchronous call is made during a batch.
InitNoDriver ==
    /\ drvPc = "off"
    /\ target_date = 0
    /\ df = <<>>
    /\ calls = <<>>

\* The working directory holds one regular file, "blk".
InitFs ==
    /\ dirs = {}
    /\ files = (<<"blk">> :> Bytes("x"))

InitDocs ==
    /\ InitNoRerun
    /\ subscription_key \in Keys
    /\ InitFs
    /\ log = <<>>
    /\ batch \in DocBatches
    /\ batchPc = "called"
    /\ sessionOpen = FALSE
    /\ batchRet = [type |-> "pending"]
    /\ st = [i \in Tasks |-> "created"]
    /\ got = [i \in Tasks |-> NoResponse]
    /\ sent = [i \in Tasks |-> 0]
    /\ InitNoDriver

NextDocs ==
    \/ get_documents_enter
    \/ get_documents_gather
    \/ \E i \in Tasks : async_get_document_start(i)
    \/ \E i \in Tasks : async_get_document_response(i)
    \/ \E i \in Tasks : async_get_document_body(i)
    \/ \E i \in Tasks : async_get_document_abort(i)
    \/ get_documents_return
    \/ get_documents_raise

SpecDocs == InitDocs /\ [][NextDocs]_vars

----------------------------------------------------------------------------
(* One async_get_document coroutine awaited by a caller that owns the      *)
(* session and passes doc_type itself.                                     *)

DocTypes == {1, 2}

WorkerCalls ==
    {<<DocRequest(id, d, t)>> : id \in {"A1", "A2"}, d \in TargetDirs,
                                t \in DocTypes}

\* The caller has opened its session and is awaiting the coroutine.
InitWorker ==
    /\ InitNoRerun
    /\ subscription_key \in Keys
    /\ InitFs
    /\ log = <<>>
    /\ batch \in WorkerCalls
    /\ batchPc = "gathering"
    /\ sessionOpen = TRUE
    /\ batchRet = [type |-> "pending"]
    /\ st = [i \in Tasks |-> "created"]
    /\ got = [i \in Tasks |-> NoResponse]
    /\ sent = [i \in Tasks |-> 0]
    /\ InitNoDriver

NextWorker ==
    \/ async_get_document_start(1)
    \/ async_get_document_response(1)
    \/ async_get_document_body(1)

SpecWorker == InitWorker /\ [][NextWorker]_vars

----------------------------------------------------------------------------
(* Listing responses.  A body is what json.loads makes of it: no JSON at   *)
(* all, an object without 'results', or an object with a list of rows.     *)

NotJson == [valid |-> FALSE, has_results |-> FALSE, results |-> <<>>]

JsonNoResults == [valid |-> TRUE, has_results |-> FALSE, results |-> <<>>]

JsonResults(rows) == [valid |-> TRUE, has_results |-> TRUE, results |-> rows]

ListBodies ==
    {NotJson, JsonNoResults, JsonResults(<<>>), JsonResults(<<"r1">>),
     JsonResults(<<"r2", "r1">>)}

\* Days are numbered; strftime('%Y-%m-%d') of day n.
DayStr(n) == "2024-01-0" \o ToString(n)

\* datetime.date.today(): the last day of the driver's range.
TodayDay == LookbackDays + 1

Today == DayStr(TodayDay)

Dates == {"None", DayStr(TodayDay - 1), Today}

\* date = today if date is None else date
ResolveDate(date) == IF date = "None" THEN Today ELSE date

\* f'{Edinet.URL}/documents.json?date={date}&type=2&Subscription-Key={key}'
ListUrl(date, key) ==
    [endpoint |-> "documents.json", arg |-> date, type |-> 2, key |-> key]

TSV_PATH == <<".", "tsv">>

\* Path(TSV_PATH) / f'document_list_{date}.tsv.gz'
list_save_path(date) ==
    Path(TSV_PATH) \o <<("document_list_" \o date) \o ".tsv.gz">>

\* DataFrame.to_csv(path, sep='\t', index=None): one line per row after the
\* header line; a path ending in .gz makes pandas compress the file through
\* gzip.GzipFile, whose header carries the time of the write.  The writes of
\* two runs of a batch are at least sleep_time = 5 seconds apart: the time
\* of a write is its run.
to_csv(rows, gz) ==
    [kind |-> IF gz THEN "tsv.gz" ELSE "tsv", rows |-> rows,
     mtime |-> IF gz THEN run ELSE 0]

----------------------------------------------------------------------------
(* The pinned environment of a listing batch: for each URL (date) what the *)
(* service answers and whether the operating system accepts the write.     *)

Answer(i) == remote.answer[ResolveDate(batch[i])]

MayFailConnect(i) == remote.fixed => Answer(i).err = "ClientConnectorError"

MayAnswer(i, s) ==
    remote.fixed =>
        Answer(i).err # "ClientConnectorError" /\ Answer(i).status = s

MayFailPayload(i) == remote.fixed => Answer(i).err = "ClientPayloadError"

MaySend(i, b, oserror) ==
    remote.fixed =>
        Answer(i).err = "" /\ Answer(i).body = b /\ Answer(i).oserror = oserror

UrlLine(url) == Line("stdout", "", url, 0, "")

----------------------------------------------------------------------------
(* Edinet.async_get_doc_json(session, date=None)                           *)

\* Lines 122-133: resolve the date, print the URL, create TSV_PATH (outside
\* the try) and issue the request.
async_get_doc_json_start(i) ==
    /\ batchPc = "gathering"
    /\ st[i] = "created"
    /\ \A j \in 1..(i - 1) : Started(j)
    /\ log' = Append(log, UrlLine(ListUrl(ResolveDate(batch[i]),
                                          subscription_key)))
    /\ IF MkdirRaises(Path(TSV_PATH), files)
       THEN /\ st' = [st EXCEPT ![i] = "raised"]
            /\ UNCHANGED <<dirs, sent>>
       ELSE /\ dirs' = MkdirParents(Path(TSV_PATH), dirs)
            /\ st' = [st EXCEPT ![i] = "connecting"]
            /\ sent' = [sent EXCEPT ![i] = @ + 1]
    /\ UNCHANGED <<rerunVars, drvVars, subscription_key, files, batch,
                   batchPc, sessionOpen,
                   batchRet, got>>

\* Lines 133-135 and 140-142: the response head arrives or the connection
\* fails; the status is printed and never tested.
async_get_doc_json_response(i) ==
    /\ st[i] = "connecting"
    /\ AllStarted
    /\ sessionOpen
    /\ LET url == ListUrl(ResolveDate(batch[i]), subscription_key) IN
       \/ /\ MayFailConnect(i)
          /\ st' = [st EXCEPT ![i] = "returned"]
          /\ got' = [got EXCEPT ![i].err = "ClientConnectorError"]
          /\ log' = Append(log, ErrorLine(url, "ClientConnectorError"))
       \/ \E s \in Statuses :
            /\ MayAnswer(i, s)
            /\ st' = [st EXCEPT ![i] = "reading"]
            /\ got' = [got EXCEPT ![i].status = s]
            /\ log' = Append(log, FetchingLine(url, s))
    /\ UNCHANGED <<rerunVars, drvVars, subscription_key, dirs, files, batch,
                   batchPc, sessionOpen,
                   batchRet, sent>>

\* Lines 135-142: the body is decoded and, when it has 'results', written as
\* a table; every exception (payload, JSON, OSError) is caught and printed.
async_get_doc_json_body(i) ==
    /\ st[i] = "reading"
    /\ sessionOpen
    /\ LET url == ListUrl(ResolveDate(batch[i]), subscription_key)
           p == list_save_path(ResolveDate(batch[i]))
       IN
       \/ /\ MayFailPayload(i)
          /\ got' = [got EXCEPT ![i].err = "ClientPayloadError"]
          /\ log' = Append(log, ErrorLine(url, "ClientPayloadError"))
          /\ UNCHANGED files
       \/ \E b \in ListBodies, oserror \in BOOLEAN :
            /\ MaySend(i, b, oserror)
            /\ IF ~b.valid
               THEN /\ got' = [got EXCEPT ![i].body = b,
                                          ![i].err = "JSONDecodeError"]
                    /\ log' = Append(log, ErrorLine(url, "JSONDecodeError"))
                    /\ UNCHANGED files
               ELSE IF ~b.has_results
               THEN /\ got' = [got EXCEPT ![i].body = b]
                    /\ UNCHANGED <<log, files>>
               ELSE IF oserror \/ ~CanOpenForWrite(p, dirs)
               THEN /\ got' = [got EXCEPT ![i].body = b, ![i].err = "OSError"]
                    /\ log' = Append(log, ErrorLine(url, "OSError"))
                    /\ UNCHANGED files
               ELSE /\ files' = WriteFile(p, to_csv(b.results, TRUE), files)
                    /\ got' = [got EXCEPT ![i].body = b, ![i].wrote = TRUE]
                    /\ UNCHANGED log
    /\ st' = [st EXCEPT ![i] = "returned"]
    /\ UNCHANGED <<rerunVars, drvVars, subscription_key, dirs, batch,
                   batchPc, sessionOpen,
                   batchRet, sent>>

\* Every task of a listing batch creates the same directory, TSV_PATH: when
\* mkdir raises for one it raises for all, so the session is never closed
\* under a pending listing request.

----------------------------------------------------------------------------
(* Edinet.async_get_docs(dates, sleep_time=5): the same four steps as      *)
(* get_documents.                                                          *)

\* Lines 148-150.
async_get_docs_enter ==
    /\ batchPc = "called"
    /\ batchPc' = "sleeping"
    /\ sessionOpen' = TRUE
    /\ UNCHANGED <<rerunVars, drvVars, subscription_key, dirs, files, log,
                   batch, batchRet, st,
                   got, sent>>

\* Line 151: time.sleep(sleep_time) is over; gather() schedules the tasks.
async_get_docs_gather ==
    /\ batchPc = "sleeping"
    /\ batchPc' = "gathering"
    /\ UNCHANGED <<rerunVars, drvVars, subscription_key, dirs, files, log,
                   batch, sessionOpen,
                   batchRet, st, got, sent>>

\* Line 151 and the end of the function: the results are dropped.
async_get_docs_return ==
    /\ batchPc = "gathering"
    /\ \A i \in Tasks : st[i] = "returned"
    /\ batchPc' = "returned"
    /\ sessionOpen' = FALSE
    /\ batchRet' = None
    /\ UNCHANGED <<rerunVars, drvVars, subscription_key, dirs, files, log,
                   batch, st, got, sent>>

\* Line 151 without return_exceptions.
async_get_docs_raise ==
    /\ batchPc = "gathering"
    /\ AllStarted
    /\ \E i \in Tasks : st[i] = "raised"
    /\ batchPc' = "raised"
    /\ sessionOpen' = FALSE
    /\ UNCHANGED <<rerunVars, drvVars, subscription_key, dirs, files, log,
                   batch, batchRet, st,
                   got, sent>>

\* dates is a list: entries may repeat and may be None.
DateBatches == UNION {[1..n -> Dates] : n \in 1..MaxDates}

\* The working directory may hold a regular file named "tsv".
InitList ==
    /\ InitNoRerun
    /\ subscription_key \in Keys
    /\ dirs = {}
    /\ files \in {(<<"blk">> :> Bytes("x")),
                  (<<"blk">> :> Bytes("x")) @@ (<<"tsv">> :> Bytes("x"))}
    /\ log = <<>>
    /\ batch \in DateBatches
    /\ batchPc = "called"
    /\ sessionOpen = FALSE
    /\ batchRet = [type |-> "pending"]
    /\ st = [i \in Tasks |-> "created"]
    /\ got = [i \in Tasks |-> NoResponse]
    /\ sent = [i \in Tasks |-> 0]
    /\ InitNoDriver

NextList ==
    \/ async_get_docs_enter
    \/ async_get_docs_gather
    \/ \E i \in Tasks : async_get_doc_json_start(i)
    \/ \E i \in Tasks : async_get_doc_json_response(i)
    \/ \E i \in Tasks : async_get_doc_json_body(i)
    \/ async_get_docs_return
    \/ async_get_docs_raise

SpecList == InitList /\ [][NextList]_vars

----------------------------------------------------------------------------
(* async_get_docs called twice with the same dates, against an environment *)
(* that answers the second run as it answered the first.                   *)

\* What the environment holds for one URL: a refused connection, a response
\* head whose body cannot be read, or a status with a body; the operating
\* system accepts the writes.
ListAnswers ==
    {[err |-> "ClientConnectorError", status |-> 0, body |-> NotJson,
      oserror |-> FALSE]}
        \cup {[err |-> "ClientPayloadError", status |-> s, body |-> NotJson,
                oserror |-> FALSE] : s \in Statuses}
        \cup {[err |-> "", status |-> s, body |-> b, oserror |-> FALSE] :
                 s \in Statuses, b \in ListBodies}

\* The caller calls async_get_docs(dates) again once the first call is over.
async_get_docs_again ==
    /\ run = 1
    /\ batchPc \in {"returned", "raised"}
    /\ \A i \in Tasks : Terminal(i)
    /\ run' = 2
    /\ firstFs' = [dirs |-> dirs, files |-> files]
    /\ batchPc' = "called"
    /\ batchRet' = [type |-> "pending"]
    /\ st' = [i \in Tasks |-> "created"]
    /\ got' = [i \in Tasks |-> NoResponse]
    /\ sent' = [i \in Tasks |-> 0]
    /\ UNCHANGED <<remote, drvVars, subscription_key, dirs, files, log, batch,
                   sessionOpen>>

InitTwice ==
    /\ \E answer \in [{ResolveDate(d) : d \in Dates} -> ListAnswers] :
         remote = [fixed |-> TRUE, answer |-> answer]
    /\ run = 1
    /\ firstFs = [dirs |-> {}, files |-> <<>>]
    /\ subscription_key \in Keys
    /\ dirs = {}
    /\ files \in {(<<"blk">> :> Bytes("x")),
                  (<<"blk">> :> Bytes("x")) @@ (<<"tsv">> :> Bytes("x"))}
    /\ log = <<>>
    /\ batch \in DateBatches
    /\ batchPc = "called"
    /\ sessionOpen = FALSE
    /\ batchRet = [type |-> "pending"]
    /\ st = [i \in Tasks |-> "created"]
    /\ got = [i \in Tasks |-> NoResponse]
    /\ sent = [i \in Tasks |-> 0]
    /\ InitNoDriver

NextTwice ==
    \/ NextList
    \/ async_get_docs_again

SpecTwice == InitTwice /\ [][NextTwice]_vars

----------------------------------------------------------------------------
(* Edinet.get_doc_json(date=None, output=False), synchronous.  The result  *)
(* of a call: the exception that left it (exc, "" for none), the value it  *)
(* returned, the filesystem after it and the lines it printed.             *)

False == [type |-> "bool", value |-> FALSE]

True == [type |-> "bool", value |-> TRUE]

DataFrame(rows) == [type |-> "DataFrame", rows |-> rows]

Raised(exc, ds, fs, lines) ==
    [exc |-> exc, ret |-> None, dirs |-> ds, files |-> fs, lines |-> lines]

Returned(v, ds, fs, lines) ==
    [exc |-> "", ret |-> v, dirs |-> ds, files |-> fs, lines |-> lines]

\* What requests.get gives: a ConnectionError, or a status with a body.
ConnectionFailed == [err |-> "ConnectionError", status |-> 0, body |-> NotJson]

HttpResponse(s, b) == [err |-> "", status |-> s, body |-> b]

SyncResponses ==
    {ConnectionFailed} \cup {HttpResponse(s, b) : s \in Statuses, b \in ListBodies}

\* Which write of the call the operating system refuses, if any.
OsErrors == {"none", "json", "tsv"}

StatusLine(stream, text, status) == Line(stream, text, NoUrl, status, "")

\* Lines 99-115: decode the body, create TSV_PATH when it is no directory,
\* write the table when 'results' is present.
get_doc_json_table(date, resp, oserror, ds, fs, lines) ==
    IF ~resp.body.valid
    THEN Raised("JSONDecodeError", ds, fs, lines)
    ELSE IF Path(TSV_PATH) \notin ds /\ MkdirRaises(Path(TSV_PATH), fs)
    THEN Raised("FileExistsError", ds, fs, lines)
    ELSE LET ds2 == MkdirParents(Path(TSV_PATH), ds) IN
         IF ~resp.body.has_results
         THEN Returned(False, ds2, fs, lines)
         ELSE IF oserror = "tsv" \/ ~CanOpenForWrite(list_save_path(date), ds2)
         THEN Raised("OSError", ds2, fs, lines)
         ELSE Returned(DataFrame(resp.body.results), ds2,
                       WriteFile(list_save_path(date),
                                 to_csv(resp.body.results, TRUE), fs),
                       lines)

\* json.dump(ret.json(), fw, ensure_ascii=False)
json_dump(body) ==
    [kind |-> "json", has_results |-> body.has_results, rows |-> body.results]

\* Lines 84-97: the request and the three-way test of the status; with
\* output, the file is opened before the body is decoded.
get_doc_json(date, output, resp, oserror, ds, fs) ==
    LET json_path == <<("documents_" \o ResolveDate(date)) \o ".json">> IN
    IF resp.err # ""
    THEN Raised(resp.err, ds, fs, <<>>)
    ELSE IF resp.status = 200 /\ output
    THEN IF oserror = "json" \/ ~CanOpenForWrite(json_path, ds)
         THEN Raised("OSError", ds, fs, <<>>)
         ELSE IF ~resp.body.valid
         THEN Raised("JSONDecodeError", ds, WriteFile(json_path, Bytes(""), fs),
                     <<>>)
         ELSE get_doc_json_table(ResolveDate(date), resp, oserror, ds,
                  WriteFile(json_path, json_dump(resp.body), fs), <<>>)
    ELSE IF resp.status = 404
    THEN Returned(False, ds, fs, <<StatusLine("stderr", "status code: 404", 404)>>)
    ELSE get_doc_json_table(ResolveDate(date), resp, oserror, ds, fs,
             <<StatusLine("stdout", "status_code =", resp.status)>>)

CallRecord(op, arg, resp, r) ==
    [op |-> op, arg |-> arg, resp |-> resp, ret |-> r.ret, exc |-> r.exc]

----------------------------------------------------------------------------
(* __main__: the daily listing driver, lines 211-222.                      *)

\* Lines 216-217 and 84-87: the loop test holds and requests.get is called.
main_request ==
    /\ drvPc = "loop"
    /\ target_date <= TodayDay
    /\ drvPc' = "waiting"
    /\ UNCHANGED <<rerunVars, batchVars, subscription_key, dirs, files, log,
                   target_date,
                   df, calls>>

\* Lines 87-115 and 218-220: the rest of get_doc_json and of the iteration.
\* An exception leaving get_doc_json is caught nowhere and ends the script.
main_response ==
    /\ drvPc = "waiting"
    /\ \E resp \in SyncResponses, oserror \in OsErrors \ {"json"} :
         LET r == get_doc_json(DayStr(target_date), FALSE, resp, oserror,
                               dirs, files)
         IN /\ dirs' = r.dirs
            /\ files' = r.files
            /\ log' = log \o r.lines
            /\ calls' = Append(calls, CallRecord("get_doc_json",
                                                 DayStr(target_date), resp, r))
            /\ IF r.exc # ""
               THEN /\ drvPc' = "crashed"
                    /\ UNCHANGED <<target_date, df>>
               ELSE /\ drvPc' = "loop"
                    /\ target_date' = target_date + 1
                    /\ df' = IF r.ret # False /\ Len(r.ret.rows) > 0
                             THEN df \o r.ret.rows
                             ELSE df
    /\ UNCHANGED <<rerunVars, batchVars, subscription_key>>

\* Line 222: the loop is over; the combined table is written.
main_export ==
    /\ drvPc = "loop"
    /\ target_date > TodayDay
    /\ \E oserror \in BOOLEAN :
         IF oserror \/ ~CanOpenForWrite(<<"document_list.tsv">>, dirs)
         THEN /\ drvPc' = "crashed"
              /\ UNCHANGED files
         ELSE /\ drvPc' = "exit0"
              /\ files' = WriteFile(<<"document_list.tsv">>, to_csv(df, FALSE),
                                    files)
    /\ UNCHANGED <<rerunVars, batchVars, subscription_key, dirs, log,
                   target_date, df,
                   calls>>

InitNoBatch ==
    /\ batch = <<>>
    /\ batchPc = "off"
    /\ sessionOpen = FALSE
    /\ batchRet = [type |-> "pending"]
    /\ st = <<>>
    /\ got = <<>>
    /\ sent = <<>>

\* Lines 212-215: the client is built and the range starts LookbackDays ago.
InitMain ==
    /\ InitNoRerun
    /\ subscription_key \in Keys
    /\ dirs = {}
    /\ files \in {(<<"blk">> :> Bytes("x")),
                  (<<"blk">> :> Bytes("x")) @@ (<<"tsv">> :> Bytes("x"))}
    /\ log = <<>>
    /\ InitNoBatch
    /\ drvPc = "loop"
    /\ target_date = TodayDay - LookbackDays
    /\ df = <<>>
    /\ calls = <<>>

NextMain ==
    \/ main_request
    \/ main_response
    \/ main_export

SpecMain == InitMain /\ [][NextMain]_vars

----------------------------------------------------------------------------
(* Edinet.get_document(doc_id, doc_type=1, target_dir='.'), synchronous.   *)

DocResponses ==
    {[err |-> "ConnectionError", status |-> 0, body |-> ""]}
        \cup {[err |-> "", status |-> s, body |-> b] :
                 s \in Statuses, b \in Bodies}

\* Lines 163-167.
Extension(doc_type) == IF doc_type = 2 THEN "pdf" ELSE "zip"

\* os.path.sep.join([target_dir, f'{doc_id}.{extension}']): the file this
\* string names.
document_path(target_dir, doc_id, extension) ==
    Path(target_dir) \o <<(doc_id \o ".") \o extension>>

\* Lines 159-175: no directory is created; open() fails in a missing one.
get_document(doc_id, doc_type, target_dir, resp, oserror, ds, fs) ==
    LET p == document_path(target_dir, doc_id, Extension(doc_type)) IN
    IF resp.err # ""
    THEN Raised(resp.err, ds, fs, <<>>)
    ELSE IF resp.status = 200
    THEN IF ~ParentExists(p, ds)
         THEN Raised("FileNotFoundError", ds, fs, <<>>)
         ELSE IF oserror \/ p \in ds
         THEN Raised("OSError", ds, fs, <<>>)
         ELSE Returned(True, ds, WriteFile(p, Bytes(resp.body), fs), <<>>)
    ELSE Returned(False, ds, fs,
                  <<StatusLine("stderr", "status_code =", resp.status)>>)

----------------------------------------------------------------------------
(* Direct calls of the synchronous methods, one after the other.           *)

get_document_call ==
    /\ Len(calls) < MaxCalls
    /\ \E doc_id \in {"A1", "A2"}, doc_type \in {1, 2},
          target_dir \in {<<".">>, <<".", "out">>},
          resp \in DocResponses, oserror \in BOOLEAN :
         LET r == get_document(doc_id, doc_type, target_dir, resp, oserror,
                               dirs, files)
         IN /\ dirs' = r.dirs
            /\ files' = r.files
            /\ log' = log \o r.lines
            /\ calls' = Append(calls,
                   CallRecord("get_document",
                              document_path(target_dir, doc_id,
                                            Extension(doc_type)),
                              resp, r))
    /\ UNCHANGED <<rerunVars, batchVars, subscription_key, drvPc,
                   target_date, df>>

get_doc_json_call ==
    /\ Len(calls) < MaxCalls
    /\ \E date \in Dates, output \in BOOLEAN, resp \in SyncResponses,
          oserror \in OsErrors :
         LET r == get_doc_json(date, output, resp, oserror, dirs, files)
         IN /\ dirs' = r.dirs
            /\ files' = r.files
            /\ log' = log \o r.lines
            /\ calls' = Append(calls,
                   CallRecord("get_doc_json", ResolveDate(date), resp, r))
    /\ UNCHANGED <<rerunVars, batchVars, subscription_key, drvPc,
                   target_date, df>>

\* The working directory may already hold the directory "out".
InitSync ==
    /\ InitNoRerun
    /\ subscription_key \in Keys
    /\ dirs \in {{}, {<<"out">>}}
    /\ files = (<<"blk">> :> Bytes("x"))
    /\ log = <<>>
    /\ InitNoBatch
    /\ InitNoDriver

NextSync ==
    \/ get_document_call
    \/ get_doc_json_call

SpecSync == InitSync /\ [][NextSync]_vars

----------------------------------------------------------------------------
(* Properties of the document batch (SpecDocs).                            *)

BatchOver == batchPc \in {"returned", "raised"}

\* C1: once get_documents has completed, <target_dir>/<doc_id>.zip exists
\* only for the members whose response status was 200; a member answered 404
\* has no file, whatever the body.
C1_FileOnlyForStatus200 ==
    batchPc = "returned" =>
        \A i \in Tasks :
            FileExists(save_path(batch[i])) => got[i].status = 200

\* C2: with max_concurrency = 2, at most 2 requests of a document batch are
\* in flight at any time, however many are pending.
C2_AtMostTwoInFlight == Cardinality(InFlight) <= 2

\* C3: a batch returns one outcome per input request, in input order: a
\* sequence as long as the input whose i-th outcome is that of request i.
C3_OneOutcomePerRequest ==
    batchPc = "returned" =>
        /\ batchRet.type = "list"
        /\ Len(batchRet.items) = Len(batch)
        /\ \A i \in Tasks : batchRet.items[i].request = i

\* C4: the failure of one member neither cancels nor blocks a sibling: the
\* batch is over only when every member is terminal, and no member is ever
\* cut off by the session closing under it or cancelled.
C4_SiblingsIsolated ==
    /\ BatchOver => \A i \in Tasks : Terminal(i)
    /\ \A i \in Tasks :
          /\ st[i] # "cancelled"
          /\ got[i].err # "ClientConnectionError"

\* C5: a fetch worker never raises past its own boundary: no task of the
\* batch ends with an exception.
C5_WorkerNeverRaises == \A i \in Tasks : st[i] # "raised"

\* C6: a destination directory is created only after the network call has
\* returned: while no response has been handled, no directory has been made.
C6_NoDirectoryBeforeResponse ==
    (\A i \in Tasks : st[i] \in {"created", "connecting"}) => dirs = {}

Mentions(line, key) == line.url.key = key

\* C7: the credential is never logged: no printed line contains the
\* subscription key.
C7_CredentialNeverLogged ==
    \A k \in 1..Len(log) : ~Mentions(log[k], subscription_key)

----------------------------------------------------------------------------
(* Properties of the listing batch (SpecList).                             *)

\* C8: no two workers of one batch write the same path: the members that
\* wrote a file have pairwise different destinations.
C8_NoTwoWritersOfOnePath ==
    \A i, j \in Tasks :
        (i # j /\ got[i].wrote /\ got[j].wrote) =>
            list_save_path(ResolveDate(batch[i]))
                # list_save_path(ResolveDate(batch[j]))

----------------------------------------------------------------------------
(* Properties of the daily driver (SpecMain).                              *)

\* C9: a failed request does not halt the driver: it never stops because a
\* request met a connection failure or a body that is not JSON.
C9_RequestFailureNotFatal ==
    (drvPc = "crashed" /\ calls # <<>>) =>
        calls[Len(calls)].exc \notin {"ConnectionError", "JSONDecodeError"}

\* C10: a listing fetch answered with a status other than 200 and 404 writes
\* no document_list_<date>.tsv.gz, whatever the body.
C10_NoTableForHttpError ==
    \A k \in 1..Len(calls) :
        (calls[k].resp.err = "" /\ calls[k].resp.status \notin {200, 404}) =>
            ~FileExists(list_save_path(calls[k].arg))

\* The dates of the driver's range, in ascending order.
RangeDates == [k \in 1..(LookbackDays + 1) |-> DayStr(TodayDay - LookbackDays + k - 1)]

\* The dates requested so far, in the order of their requests.
Dispatched ==
    [k \in 1..Len(calls) |-> calls[k].arg]
        \o (IF drvPc = "waiting" THEN <<DayStr(target_date)>> ELSE <<>>)

\* C11: the driver requests the dates of [start, end] one at a time in
\* ascending order, and when it has stopped every date of the interval has
\* been requested exactly once.
C11_EveryDateOnceInOrder ==
    /\ Len(Dispatched) <= Len(RangeDates)
    /\ Dispatched = SubSeq(RangeDates, 1, Len(Dispatched))
    /\ drvPc \in {"exit0", "crashed"} => Dispatched = RangeDates

\* The outcome of a listing response is a non-empty Success: status 200 and
\* a decoded body whose 'results' holds at least one row.
NonEmptySuccess(resp) ==
    /\ resp.err = ""
    /\ resp.status = 200
    /\ resp.body.valid
    /\ resp.body.has_results
    /\ Len(resp.body.results) > 0

\* The rows of the non-empty Success responses among the first n calls, in
\* call order and within a call in response order.
RECURSIVE SuccessRows(_)
SuccessRows(n) ==
    IF n = 0
    THEN <<>>
    ELSE SuccessRows(n - 1)
             \o (IF NonEmptySuccess(calls[n].resp)
                 THEN calls[n].resp.body.results
                 ELSE <<>>)

\* C12: when the driver has processed all dates, the combined table and its
\* export hold exactly the rows of the dates whose outcome was a non-empty
\* Success, in date order and within a date in response order.
C12_CombinedTableIsSuccessRows ==
    drvPc = "exit0" =>
        /\ df = SuccessRows(Len(calls))
        /\ files[<<"document_list.tsv">>] = to_csv(SuccessRows(Len(calls)), FALSE)

\* A listing response of status 200 whose decoded body has no 'results' or
\* an empty one.
EmptyResult(resp) ==
    /\ resp.err = ""
    /\ resp.status = 200
    /\ resp.body.valid
    /\ (~resp.body.has_results \/ Len(resp.body.results) = 0)

\* The calls of get_doc_json that returned on an EmptyResult response.
EmptyResultCalls ==
    {k \in 1..Len(calls) : /\ calls[k].op = "get_doc_json"
                           /\ calls[k].exc = ""
                           /\ EmptyResult(calls[k].resp)}

\* C13: get_doc_json treats 'results absent' and 'results = []' alike: any
\* two such calls return the same value and have the same effect on their
\* document_list_<date>.tsv.gz, and none returns a table as a Success does.
C13_AbsentAndEmptyAlike ==
    \A k1, k2 \in EmptyResultCalls :
        /\ calls[k1].ret = calls[k2].ret
        /\ FileExists(list_save_path(calls[k1].arg))
               <=> FileExists(list_save_path(calls[k2].arg))
        /\ calls[k1].ret.type # "DataFrame"

\* C14: doc_type decides the extension of the file written, for
\* async_get_document as for get_document: a worker that has written the
\* body of a 200 response has written <target_dir>/<doc_id>.zip for type 1 and
\* <target_dir>/<doc_id>.pdf for type 2.
C14_ExtensionFollowsType ==
    \A i \in Tasks :
        got[i].status = 200 /\ got[i].wrote =>
            FileExists(document_path(batch[i].target_dir, batch[i].doc_id,
                                     Extension(batch[i].doc_type)))

\* C15: the destination directory is created before the write: a call of
\* get_document that reached its write (status 200) found the directory of
\* its file in place, and the directory exists afterwards.
C15_DirectoryBeforeWrite ==
    \A k \in 1..Len(calls) :
        (/\ calls[k].op = "get_document"
         /\ calls[k].resp.err = ""
         /\ calls[k].resp.status = 200)
            => /\ calls[k].exc # "FileNotFoundError"
               /\ ParentExists(calls[k].arg, dirs)

\* The pre-batch wait of get_documents is not over yet.
BeforeEndOfWait == batchPc \in {"called", "sleeping"}

\* C16: no member of a batch has started, issued its request or completed
\* in a state that precedes the end of the pre-batch wait; the wait is
\* entered from the call only, nothing else happens during it, and the batch
\* never comes back to it.
C16_NoRequestBeforeEndOfWait ==
    /\ [](BeforeEndOfWait =>
             \A i \in Tasks : st[i] = "created" /\ sent[i] = 0 /\ got[i] = NoResponse)
    /\ [][batchPc' = "sleeping" => batchPc = "called"]_vars
    /\ [][~BeforeEndOfWait => ~BeforeEndOfWait']_vars

\* The wait is over and a member has issued its request.
C16_RequestAfterWait ==
    /\ batchPc = "gathering"
    /\ \E i \in Tasks : sent[i] = 1 /\ st[i] = "connecting"

\* C17: when the second run of the same batch, answered as the first was, is
\* over, the filesystem is what the first run left: the same directories,
\* the same files, each with the same content.
C17_SecondRunChangesNothing ==
    (run = 2 /\ BatchOver /\ \A i \in Tasks : Terminal(i)) =>
        /\ dirs = firstFs.dirs
        /\ files = firstFs.files

\* C18: a member of a batch is never requested twice, and a member that has
\* ended, whatever its outcome, was requested exactly once.
C18_ExactlyOneRequest ==
    \A i \in Tasks :
        /\ sent[i] <= 1
        /\ Terminal(i) => sent[i] = 1

\* C19: a call of get_document that got a response returns True exactly
\* when the status is 200, and then (unless the operating system refused
\* the write) its file holds the body; for every other status it returns
\* False.
C19_TrueExactlyFor200 ==
    \A k \in 1..Len(calls) :
        (calls[k].op = "get_document" /\ calls[k].resp.err = "") =>
            IF calls[k].resp.status = 200
            THEN \/ calls[k].exc = "OSError"
                 \/ /\ calls[k].exc = ""
                    /\ calls[k].ret = True
                    /\ k = Len(calls) =>
                           /\ FileExists(calls[k].arg)
                           /\ files[calls[k].arg] = Bytes(calls[k].resp.body)
            ELSE calls[k].exc = "" /\ calls[k].ret = False

\* The destination of member i of a listing batch.
Destination(i) == list_save_path(ResolveDate(batch[i]))

\* The complete table member i has read.
CompleteBody(i) == to_csv(got[i].body.results, TRUE)

\* Member i performs its write in this step, from its start to its end.
WritesInOneStep(i) ==
    /\ st[i] = "reading"
    /\ st'[i] = "returned"
    /\ got'[i].wrote
    /\ \A j \in Tasks \ {i} : st'[j] = st[j] /\ got'[j] = got[j]
    /\ files' = [p \in DOMAIN files \cup {Destination(i)} |->
                    IF p = Destination(i)
                    THEN to_csv(got'[i].body.results, TRUE)
                    ELSE files[p]]

\* C20: a write of an async worker is a single step: every step that
\* changes a file is the whole write of exactly one member, after which the
\* destination holds that member's complete body; so the file at a
\* destination always holds the complete body of one of the members that
\* wrote it, also when two members share the destination.
C20_WriteIsOneStep ==
    /\ [][files' # files => \E i \in Tasks : WritesInOneStep(i)]_vars
    /\ [](\A i \in Tasks :
             got[i].wrote =>
                 \E j \in Tasks : /\ Destination(j) = Destination(i)
                                  /\ got[j].wrote
                                  /\ files[Destination(i)] = CompleteBody(j))

\* Two members with the same destination have both written, bodies that
\* differ.
C20_TwoWritersOfOnePath ==
    \E i, j \in Tasks :
        /\ i # j
        /\ Destination(i) = Destination(j)
        /\ got[i].wrote /\ got[j].wrote
        /\ got[i].body # got[j].body

====
